---- MODULE Spec2Model ----
(***************************************************************************)
(* The guessing-game backend (src/src/server.ts): the two in-memory maps,  *)
(* the socket handlers, the round interval and the deferred                *)
(* new-game-master announcement, as a state machine.  Every handler runs   *)
(* to completion on the Node event loop, so a handler is one action.       *)
(***************************************************************************)
EXTENDS Integers, Sequences, FiniteSets, TLC

(* ---------------------------- bounds ----------------------------------- *)
\* sockets that ever connect (socket.id values 1..NumSockets)
NumSockets == 3
\* create-session requests that succeed (session ids 1..MaxSessions)
MaxSessions == 2
\* intervals ever started by start-game (handles 1..MaxIntervals)
MaxIntervals == 2
\* ticks a leaked or orphaned interval is followed below timeLeft = 0
MaxOverrun == 1
\* guesses followed below attempts = 0
MaxOverdraw == 1
\* sockets + sessions + intervals of one run: a run in which two sockets play
\* a round in one session has one more of them, a third socket, a second
\* session or a second round
MaxLoad == 5

\* ticks of a countdown: `let timeLeft = 60` in the source, scaled down so that
\* whole rounds are explored against every interleaving of the other events
RoundSeconds == 2

(* ------------------------- program constants --------------------------- *)
\* attempts per player per round
InitialAttempts == 3
\* currentScore + 10
WinPoints == 10
\* playersArray[NaN]: the value of master when the players map is empty
Undefined == 0

(* ------------------------------ values --------------------------------- *)
\* null and undefined-able values are sequences of length 0 or 1
None == <<>>
Some(x) == <<x>>

\* strings are sequences of characters
Whitespace == {" "}
LowerOf(c) == CASE c = "P" -> "p" [] c = "A" -> "a" [] OTHER -> c
toLowerCase(s) == [i \in 1..Len(s) |-> LowerOf(s[i])]

RECURSIVE trimStart(_)
trimStart(s) ==
    IF s # <<>> /\ Head(s) \in Whitespace THEN trimStart(Tail(s)) ELSE s

RECURSIVE trimEnd(_)
trimEnd(s) ==
    IF s # <<>> /\ s[Len(s)] \in Whitespace
    THEN trimEnd(SubSeq(s, 1, Len(s) - 1))
    ELSE s

trim(s) == trimEnd(trimStart(s))

\* !x || x.trim() === ""
IsBlank(s) == s = <<>> \/ trim(s) = <<>>

\* answer.toLowerCase().trim()
Normalize(s) == trim(toLowerCase(s))

(* ------------------------------ inputs --------------------------------- *)
SocketIds == 1..NumSockets
SessionIds == 1..MaxSessions
\* the sessionId of a request: an id that is or is not in the store (every id
\* is unknown before it is handed out and after its session is removed), or a
\* blank one
BlankSessionId == 0
SessionIdInputs == {BlankSessionId} \cup SessionIds
Usernames == {<<" ">>, <<"A">>}
\* {question, answer} of start-game: a blank question, a blank answer, and
\* a pair that is accepted
StartData ==
    {[question |-> <<>>, answer |-> <<"p", "a">>],
     [question |-> <<"Q">>, answer |-> <<" ">>],
     [question |-> <<"Q">>, answer |-> <<" ", "P", "a">>]}
Guesses == {<<>>, <<"P", "A", " ">>, <<"l", "o">>}

(* ----------------------- Map<string, _> helpers ------------------------ *)
\* Map<string, Player> keeps insertion order: a sequence of Player records
Keys(players) == [i \in 1..Len(players) |-> players[i].id]
HasPlayer(players, id) == \E i \in 1..Len(players) : players[i].id = id
\* players.get(id): the Player, or undefined
PlayersGet(players, id) ==
    IF HasPlayer(players, id)
    THEN Some(players[CHOOSE i \in 1..Len(players) : players[i].id = id])
    ELSE None
\* players.set(id, player): an existing key keeps its position
PlayersSet(players, player) ==
    IF HasPlayer(players, player.id)
    THEN [i \in 1..Len(players) |->
            IF players[i].id = player.id THEN player ELSE players[i]]
    ELSE Append(players, player)
\* players.delete(id)
PlayersDelete(players, id) == SelectSeq(players, LAMBDA p : p.id # id)

\* Map<string, number>: a function on the keys present
NumGetOr0(m, k) == IF k \in DOMAIN m THEN m[k] ELSE 0
\* map.set(k, v)
MapSet(m, k, v) == [x \in DOMAIN m \cup {k} |-> IF x = k THEN v ELSE m[x]]
\* map.delete(k)
MapDelete(m, k) == [x \in DOMAIN m \ {k} |-> m[x]]
EmptyMap == [x \in {} |-> 0]

(* ------------------------------- state --------------------------------- *)
VARIABLES
    sockets,         \* socket ids that are connected
    nSockets,        \* sockets that ever connected
    gameSessions,    \* Map<sessionId, GameSession>
    nSessions,       \* session ids handed out
    playerSessions,  \* Map<socket id, session id>
    intervals,       \* live setInterval callbacks: handle -> closure
    nIntervals,      \* interval handles handed out
    timeouts         \* pending setTimeout callbacks per session object

vars == <<sockets, nSockets, gameSessions, nSessions, playerSessions,
          intervals, nIntervals, timeouts>>

(* A handler is a function of the server's state and the request: it gives  *)
(* the state it leaves and the notifications it emits, in order.            *)
Server ==
    [gameSessions |-> gameSessions, nSessions |-> nSessions,
     playerSessions |-> playerSessions, intervals |-> intervals,
     nIntervals |-> nIntervals, timeouts |-> timeouts, emitted |-> <<>>]

Commit(r) ==
    /\ gameSessions' = r.gameSessions
    /\ nSessions' = r.nSessions
    /\ playerSessions' = r.playerSessions
    /\ intervals' = r.intervals
    /\ nIntervals' = r.nIntervals
    /\ timeouts' = r.timeouts

ToSocket(id) == <<"socket", id>>
ToRoom(sessionId) == <<"room", sessionId>>
Emit(to, event, data) == [to |-> to, event |-> event, data |-> data]
\* the error sent with io.emit, to every connection
RejectedToAll(id, message) ==
    [Server EXCEPT !.emitted = <<Emit(<<"all">>, "error", message)>>]

\* socket.emit("error", {message}); return
Rejected(id, message) ==
    [Server EXCEPT !.emitted = <<Emit(ToSocket(id), "error", message)>>]

Events(r) == {r.emitted[i].event : i \in 1..Len(r.emitted)}
IsRejected(r) == "error" \in Events(r)

Init ==
    /\ sockets = {}
    /\ nSockets = 0
    /\ gameSessions = EmptyMap
    /\ nSessions = 0
    /\ playerSessions = EmptyMap
    /\ intervals = EmptyMap
    /\ nIntervals = 0
    /\ timeouts = [s \in SessionIds |-> 0]

\* io.on("connection"): a new socket with a fresh id
Connection ==
    /\ nSockets < NumSockets
    /\ nSockets + nSessions + nIntervals < MaxLoad
    /\ nSockets' = nSockets + 1
    /\ sockets' = sockets \cup {nSockets + 1}
    /\ UNCHANGED <<gameSessions, nSessions, playerSessions, intervals,
                   nIntervals, timeouts>>

NewPlayer(id, username) == [id |-> id, username |-> username, score |-> 0]

NewSession(sessionId, id) ==
    [id |-> sessionId, master |-> id, players |-> <<>>, status |-> "waiting",
     question |-> None, answer |-> None, winner |-> None, timer |-> None,
     attempts |-> EmptyMap, scores |-> EmptyMap]

\* socket.on("create-session"); uuidv4().substring(0, 8) is a fresh id
OnCreateSession(id, username) ==
    IF IsBlank(username)
    THEN Rejected(id, "Username is required")
    ELSE LET sessionId == nSessions + 1
             player == NewPlayer(id, username)
             gameSession == [NewSession(sessionId, id) EXCEPT
                               !.players = PlayersSet(@, player)]
         IN [Server EXCEPT
               !.gameSessions = MapSet(@, sessionId, gameSession),
               !.nSessions = sessionId,
               !.playerSessions = MapSet(@, id, sessionId),
               !.emitted = <<Emit(ToSocket(id), "session-created",
                                  [sessionId |-> sessionId, player |-> player])>>]

CreateSession(id, username) ==
    /\ id \in sockets
    /\ OnCreateSession(id, username).nSessions <= MaxSessions
    /\ nSockets + OnCreateSession(id, username).nSessions + nIntervals <= MaxLoad
    /\ Commit(OnCreateSession(id, username))
    /\ UNCHANGED <<sockets, nSockets>>

(* ------------------------------ endGame -------------------------------- *)
\* Array.prototype.indexOf: the 0-based position, or -1
IndexOf(array, x) ==
    IF \E i \in 1..Len(array) : array[i] = x
    THEN (CHOOSE i \in 1..Len(array) :
            /\ array[i] = x
            /\ \A j \in 1..(i - 1) : array[j] # x) - 1
    ELSE -1

\* the rotation with the "+ 1" left out: the master never moves on
NextMasterSame(playersArray, master) ==
    IF Len(playersArray) = 0
    THEN Undefined
    ELSE playersArray[(IndexOf(playersArray, master) % Len(playersArray)) + 1]

\* playersArray[(currentMasterIndex + 1) % playersArray.length]
NextMaster(playersArray, master) ==
    IF Len(playersArray) = 0
    THEN Undefined
    ELSE playersArray[((IndexOf(playersArray, master) + 1) % Len(playersArray)) + 1]

\* gameSession.scores.set(winnerId, (scores.get(winnerId) || 0) + 10)
AwardScores(scores, winnerId) ==
    IF winnerId = None
    THEN scores
    ELSE MapSet(scores, winnerId[1], NumGetOr0(scores, winnerId[1]) + WinPoints)

\* const winner = players.get(winnerId); if (winner) winner.score += 10
AwardPlayer(players, winnerId) ==
    IF winnerId = None
    THEN players
    ELSE [i \in 1..Len(players) |->
            IF players[i].id = winnerId[1]
            THEN [players[i] EXCEPT !.score = @ + WinPoints]
            ELSE players[i]]

\* if (gameSession.timer) clearInterval(gameSession.timer)
ClearTimer(iv, timer) == IF timer = None THEN iv ELSE MapDelete(iv, timer[1])

Scoreboard(players) ==
    [i \in 1..Len(players) |->
        [username |-> players[i].username, score |-> players[i].score]]

\* endGame with the assignment of "waiting" left out
EndedSessionFinished(gameSession, winnerId) ==
    LET players == AwardPlayer(gameSession.players, winnerId)
    IN [gameSession EXCEPT
          !.timer = None,
          !.winner = winnerId,
          !.scores = AwardScores(@, winnerId),
          !.players = players,
          !.master = NextMaster(Keys(players), @),
          !.status = "finished",
          !.question = None,
          !.answer = None]

\* the session as endGame leaves it
EndedSession(gameSession, winnerId) ==
    LET players == AwardPlayer(gameSession.players, winnerId)
    IN [gameSession EXCEPT
          !.timer = None,
          !.winner = winnerId,
          !.scores = AwardScores(@, winnerId),
          !.players = players,
          !.master = NextMaster(Keys(players), @),
          !.status = "waiting",
          !.question = None,
          !.answer = None]

\* endGame(sessionId, winnerId), called by a handler that has brought the
\* server to r
EndGame(r, sessionId, winnerId) ==
    IF sessionId \notin DOMAIN r.gameSessions
    THEN r
    ELSE LET gameSession == r.gameSessions[sessionId]
             ended == EndedSession(gameSession, winnerId)
         IN [r EXCEPT
               !.intervals = ClearTimer(@, gameSession.timer),
               !.gameSessions = [@ EXCEPT ![sessionId] = ended],
               !.timeouts = [@ EXCEPT ![sessionId] = @ + 1],
               !.emitted = @ \o
                  <<Emit(ToRoom(sessionId), "game-ended",
                         [winner |-> IF winnerId = None
                                     THEN None
                                     ELSE PlayersGet(ended.players, winnerId[1]),
                          answer |-> gameSession.answer,
                          scores |-> Scoreboard(ended.players)])>>]

\* the setTimeout callback of endGame, 3000 ms after the round ended; it holds
\* the session object, which outlives its removal from the store (with no
\* players left in it)
OnTimeout(sessionId) ==
    [Server EXCEPT
       !.timeouts = [@ EXCEPT ![sessionId] = @ - 1],
       !.emitted = <<Emit(ToRoom(sessionId), "new-game-master",
                          [master |-> IF sessionId \in DOMAIN gameSessions
                                      THEN PlayersGet(gameSessions[sessionId].players,
                                                      gameSessions[sessionId].master)
                                      ELSE None])>>]

NewMasterTimeout(sessionId) ==
    /\ timeouts[sessionId] > 0
    /\ Commit(OnTimeout(sessionId))
    /\ UNCHANGED <<sockets, nSockets>>

(* ------------------------------ handlers ------------------------------- *)
\* socket.on("join-session")
OnJoinSession(id, sessionId, username) ==
    IF IsBlank(username)
    THEN Rejected(id, "Username is required")
    ELSE IF sessionId = BlankSessionId
    THEN Rejected(id, "Session ID is required")
    ELSE IF sessionId \notin DOMAIN gameSessions
    THEN Rejected(id, "Session not found")
    ELSE IF gameSessions[sessionId].status # "waiting"
    THEN Rejected(id, "Game already in progress")
    ELSE LET player == NewPlayer(id, username)
             players == PlayersSet(gameSessions[sessionId].players, player)
         IN [Server EXCEPT
               !.gameSessions = [@ EXCEPT ![sessionId].players = players],
               !.playerSessions = MapSet(@, id, sessionId),
               !.emitted = <<Emit(ToSocket(id), "joined-session",
                                  [sessionId |-> sessionId, player |-> player]),
                             Emit(ToRoom(sessionId), "player-joined",
                                  [players |-> players])>>]

JoinSession(id, sessionId, username) ==
    /\ id \in sockets
    /\ Commit(OnJoinSession(id, sessionId, username))
    /\ UNCHANGED <<sockets, nSockets>>

\* the attempts map that covers the first player only
InitialAttemptsMapFirst(players) ==
    [p \in {players[1].id} |-> InitialAttempts]

\* gameSession.attempts = new Map(keys.map((id) => [id, 3]))
InitialAttemptsMap(players) ==
    [p \in {players[i].id : i \in 1..Len(players)} |-> InitialAttempts]

\* socket.on("start-game")
OnStartGame(id, sessionId, question, answer) ==
    IF sessionId \notin DOMAIN gameSessions
    THEN Rejected(id, "Session not found")
    ELSE IF gameSessions[sessionId].master # id
    THEN Rejected(id, "Not authorized to start game")
    ELSE IF Len(gameSessions[sessionId].players) < 2
    THEN Rejected(id, "Need at least 2 players to start")
    ELSE IF IsBlank(question)
    THEN Rejected(id, "Question is required")
    ELSE IF IsBlank(answer)
    THEN Rejected(id, "Answer is required")
    ELSE LET handle == nIntervals + 1
             gameSession == gameSessions[sessionId]
         IN [Server EXCEPT
               !.gameSessions = [@ EXCEPT ![sessionId] =
                  [gameSession EXCEPT
                     !.status = "in-progress",
                     !.question = Some(question),
                     !.answer = Some(Normalize(answer)),
                     !.attempts = InitialAttemptsMap(gameSession.players),
                     !.timer = Some(handle)]],
               !.intervals = MapSet(@, handle,
                  [sessionId |-> sessionId, timeLeft |-> RoundSeconds]),
               !.nIntervals = handle,
               !.emitted = <<Emit(ToRoom(sessionId), "game-started",
                                  [question |-> question,
                                   timeLeft |-> RoundSeconds,
                                   attempts |-> InitialAttempts])>>]

StartGame(id, sessionId, question, answer) ==
    /\ id \in sockets
    /\ OnStartGame(id, sessionId, question, answer).nIntervals <= MaxIntervals
    /\ nSockets + nSessions
          + OnStartGame(id, sessionId, question, answer).nIntervals <= MaxLoad
    /\ Commit(OnStartGame(id, sessionId, question, answer))
    /\ UNCHANGED <<sockets, nSockets>>

\* the setInterval callback of start-game, every 1000 ms until cleared
OnInterval(handle) ==
    LET sessionId == intervals[handle].sessionId
        timeLeft == intervals[handle].timeLeft - 1
        ticked == [Server EXCEPT
                     !.intervals = [@ EXCEPT ![handle].timeLeft = timeLeft],
                     !.emitted = <<Emit(ToRoom(sessionId), "timer-update",
                                        [timeLeft |-> timeLeft])>>]
    IN IF timeLeft <= 0 THEN EndGame(ticked, sessionId, None) ELSE ticked

IntervalTick(handle) ==
    /\ handle \in DOMAIN intervals
    /\ intervals[handle].timeLeft > -MaxOverrun
    /\ Commit(OnInterval(handle))
    /\ UNCHANGED <<sockets, nSockets>>

\* socket.on("submit-guess")
OnSubmitGuess(id, sessionId, guess) ==
    IF sessionId \notin DOMAIN gameSessions
    THEN Rejected(id, "Session not found")
    ELSE IF gameSessions[sessionId].status # "in-progress"
    THEN Rejected(id, "Game not in progress")
    ELSE IF IsBlank(guess)
    THEN Rejected(id, "Guess cannot be empty")
    ELSE LET gameSession == gameSessions[sessionId]
             attemptsLeft == NumGetOr0(gameSession.attempts, id) - 1
             guessed == [Server EXCEPT
                           !.gameSessions = [@ EXCEPT ![sessionId].attempts =
                              MapSet(@, id, attemptsLeft)]]
             isCorrect == Some(Normalize(guess)) = gameSession.answer
         IN IF isCorrect
            THEN EndGame(guessed, sessionId, Some(id))
            ELSE IF attemptsLeft <= 0
            THEN [guessed EXCEPT
                    !.emitted = <<Emit(ToSocket(id), "no-attempts-left", None)>>]
            ELSE [guessed EXCEPT
                    !.emitted = <<Emit(ToSocket(id), "incorrect-guess",
                                       [attemptsLeft |-> attemptsLeft])>>]

SubmitGuess(id, sessionId, guess) ==
    /\ id \in sockets
    /\ \A s \in DOMAIN gameSessions :
          NumGetOr0(gameSessions[s].attempts, id) > -MaxOverdraw
    /\ Commit(OnSubmitGuess(id, sessionId, guess))
    /\ UNCHANGED <<sockets, nSockets>>

\* the disconnect handler with the reassignment left out
MasterAfterLeaveStale(players, master, id) == master

\* the master once id has left: Array.from(players.keys())[0] if id was it
MasterAfterLeave(players, master, id) ==
    IF master = id THEN players[1].id ELSE master

\* the session object once id has left it (it outlives its removal from the
\* store); the master is reassigned only while players remain
LeftSession(gameSession, id) ==
    LET players == PlayersDelete(gameSession.players, id)
    IN IF Len(players) = 0
       THEN [gameSession EXCEPT !.players = players]
       ELSE [gameSession EXCEPT
               !.players = players,
               !.master = MasterAfterLeave(players, @, id)]

\* the disconnect handler with the removal of an empty session left out
StoreAfterLeaveKeep(gs, sessionId, left) == [gs EXCEPT ![sessionId] = left]

\* if (gameSession.players.size === 0) gameSessions.delete(sessionId)
StoreAfterLeave(gs, sessionId, left) ==
    IF Len(left.players) = 0
    THEN MapDelete(gs, sessionId)
    ELSE [gs EXCEPT ![sessionId] = left]

\* the disconnect handler with the removal from the index left out
IndexAfterLeaveKeep(ps, id) == ps

\* playerSessions.delete(socket.id)
IndexAfterLeave(ps, id) == MapDelete(ps, id)

\* socket.on("disconnect")
OnDisconnect(id) ==
    IF id \notin DOMAIN playerSessions
    THEN Server
    ELSE IF playerSessions[id] \notin DOMAIN gameSessions
    THEN Server
    ELSE LET sessionId == playerSessions[id]
             gameSession == gameSessions[sessionId]
             left == LeftSession(gameSession, id)
         IN [Server EXCEPT
               !.playerSessions = IndexAfterLeave(@, id),
               !.gameSessions = StoreAfterLeave(@, sessionId, left),
               !.emitted =
                  (IF Len(left.players) # 0 /\ gameSession.master = id
                   THEN <<Emit(ToRoom(sessionId), "new-game-master",
                               [master |-> PlayersGet(left.players, left.master)])>>
                   ELSE <<>>)
                  \o <<Emit(ToRoom(sessionId), "player-left",
                            [players |-> left.players])>>]

\* a socket disconnects once, and sends nothing afterwards
Disconnect(id) ==
    /\ id \in sockets
    /\ sockets' = sockets \ {id}
    /\ Commit(OnDisconnect(id))
    /\ UNCHANGED nSockets

Next ==
    \/ Connection
    \/ \E id \in SocketIds, username \in Usernames : CreateSession(id, username)
    \/ \E id \in SocketIds, sessionId \in SessionIdInputs, username \in Usernames :
          JoinSession(id, sessionId, username)
    \/ \E id \in SocketIds, sessionId \in SessionIds, data \in StartData :
          StartGame(id, sessionId, data.question, data.answer)
    \/ \E id \in SocketIds, sessionId \in SessionIds, guess \in Guesses :
          SubmitGuess(id, sessionId, guess)
    \/ \E id \in SocketIds : Disconnect(id)
    \/ \E handle \in 1..MaxIntervals : IntervalTick(handle)
    \/ \E sessionId \in SessionIds : NewMasterTimeout(sessionId)

Spec == Init /\ [][Next]_vars

(* ------------------------------ properties ----------------------------- *)
Live(sessionId) == sessionId \in DOMAIN gameSessions
InProgress(sessionId) ==
    Live(sessionId) /\ gameSessions[sessionId].status = "in-progress"
\* the step ran endGame on a session of the store: only endGame schedules the
\* deferred announcement
RoundEnds(sessionId) ==
    Live(sessionId) /\ timeouts'[sessionId] = timeouts[sessionId] + 1
LiveIntervals(sessionId) ==
    {h \in DOMAIN intervals : intervals[h].sessionId = sessionId}
PlayerIds(sessionId) ==
    {gameSessions[sessionId].players[i].id :
        i \in 1..Len(gameSessions[sessionId].players)}

\* C1: in every reachable state, the master of every session of the store
\* whose players map is non-empty is a key of that map.
C1_MasterIsPlayer ==
    \A s \in DOMAIN gameSessions :
        gameSessions[s].players # <<>> =>
            HasPlayer(gameSessions[s].players, gameSessions[s].master)

\* a round has ended, a socket that played it has since disconnected, and the
\* master is not the creator any more
C1_Witness ==
    \E s \in DOMAIN gameSessions :
        /\ timeouts[s] > 0
        /\ DOMAIN gameSessions[s].attempts \ PlayerIds(s) # {}
        /\ 1 \notin PlayerIds(s)
        /\ HasPlayer(gameSessions[s].players, gameSessions[s].master)

\* C2: a run of endGame on a session that is not in progress changes neither
\* the session nor the pending announcements and emits no game-ended.  endGame
\* is reached from the interval callback and from submit-guess; submit-guess
\* has checked the status.
C2_EndRoundIdempotent ==
    [][\A h \in 1..MaxIntervals :
          (/\ IntervalTick(h)
           /\ Live(intervals[h].sessionId)
           /\ ~InProgress(intervals[h].sessionId))
          => /\ gameSessions' = gameSessions
             /\ timeouts' = timeouts
             /\ "game-ended" \notin Events(OnInterval(h))]_vars

\* C3: a start-game request for a session that is in progress is rejected
\* with an error and leaves the session and the intervals as they were.
C3_StartOnlyWhenWaiting ==
    [][\A id \in SocketIds, s \in SessionIds, data \in StartData :
          (StartGame(id, s, data.question, data.answer) /\ InProgress(s))
          => /\ IsRejected(OnStartGame(id, s, data.question, data.answer))
             /\ UNCHANGED <<gameSessions, intervals>>]_vars

\* C4: a session has at most one live countdown, and none while it is not in
\* progress, so that no tick reaches a session between endGame and the next
\* start-game.
C4_NoTickAfterEndRound ==
    \A s \in SessionIds :
        /\ Cardinality(LiveIntervals(s)) <= 1
        /\ (Live(s) /\ ~InProgress(s)) => LiveIntervals(s) = {}

\* the player after master in the key order, wrapping to the first
Successor(keys, master) ==
    LET i == CHOOSE i \in 1..Len(keys) : keys[i] = master
    IN IF i = Len(keys) THEN keys[1] ELSE keys[i + 1]

\* C5: every run of endGame on a session of the store leaves as master the
\* player that follows the prior master in the join order of the players
\* present, wrapping from the last to the first.
C5_MasterRotates ==
    [][\A s \in SessionIds :
          RoundEnds(s)
          => /\ Live(s)'
             /\ Keys(gameSessions'[s].players) = Keys(gameSessions[s].players)
             /\ HasPlayer(gameSessions[s].players, gameSessions[s].master)
             /\ gameSessions'[s].master =
                   Successor(Keys(gameSessions[s].players), gameSessions[s].master)]_vars

\* two rounds have ended in a session that still has every socket as a player,
\* and the master has gone from the first player to the second and back
C5_Witness ==
    \E s \in DOMAIN gameSessions :
        /\ timeouts[s] = 2
        /\ Len(gameSessions[s].players) >= 2
        /\ gameSessions[s].master = gameSessions[s].players[1].id
        /\ gameSessions[s].winner # None

\* C6: a run of endGame with a winner adds exactly 10 to the winner's entry of
\* scores and to the winner's Player record and leaves every other score as it
\* was; a run with no winner changes no score.
C6_ScoreDelta ==
    [][\A s \in SessionIds :
          RoundEnds(s)
          => LET before == gameSessions[s]
                 after == gameSessions'[s]
                 winnerId == after.winner
             IN /\ \A p \in DOMAIN after.scores :
                      after.scores[p] = NumGetOr0(before.scores, p)
                         + (IF winnerId = Some(p) THEN WinPoints ELSE 0)
                /\ \A i \in 1..Len(before.players) :
                      after.players[i].score = before.players[i].score
                         + (IF winnerId = Some(before.players[i].id)
                            THEN WinPoints ELSE 0)
                /\ winnerId # None =>
                      /\ winnerId[1] \in DOMAIN after.scores
                      /\ HasPlayer(before.players, winnerId[1])]_vars

\* C7: while a session is in progress every player has between 0 and 3
\* attempts left.
C7_AttemptsInRange ==
    \A s \in DOMAIN gameSessions :
        InProgress(s) =>
            \A p \in PlayerIds(s) :
                /\ p \in DOMAIN gameSessions[s].attempts
                /\ gameSessions[s].attempts[p] \in 0..InitialAttempts

\* C8: a guess by a player who has no attempts left does not end the round and
\* awards nothing, whatever the guess.
C8_ExhaustedGuessDoesNotCount ==
    [][\A id \in SocketIds, s \in SessionIds, guess \in Guesses :
          (/\ SubmitGuess(id, s, guess)
           /\ InProgress(s)
           /\ id \in PlayerIds(s)
           /\ NumGetOr0(gameSessions[s].attempts, id) <= 0)
          => /\ InProgress(s)'
             /\ gameSessions'[s].scores = gameSessions[s].scores
             /\ gameSessions'[s].players = gameSessions[s].players
             /\ timeouts' = timeouts]_vars

\* C9: a guess that does not match changes neither the status, the master nor
\* the scores, and a round that ends without a winner ends on the tick that
\* takes the countdown started for it, the session's timer, to 0.
C9_EndsOnlyAtTimeout ==
    [][/\ \A id \in SocketIds, s \in SessionIds, guess \in Guesses :
            (/\ SubmitGuess(id, s, guess)
             /\ InProgress(s)
             /\ Some(Normalize(guess)) # gameSessions[s].answer)
            => /\ InProgress(s)'
               /\ gameSessions'[s].master = gameSessions[s].master
               /\ gameSessions'[s].scores = gameSessions[s].scores
               /\ gameSessions'[s].players = gameSessions[s].players
       /\ \A h \in 1..MaxIntervals, s \in SessionIds :
            (/\ IntervalTick(h)
             /\ intervals[h].sessionId = s
             /\ InProgress(s)
             /\ ~InProgress(s)')
            => /\ gameSessions[s].timer = Some(h)
               /\ intervals[h].timeLeft = 1
               /\ gameSessions'[s].winner = None
               /\ gameSessions'[s].scores = gameSessions[s].scores]_vars

\* C10: no session of the store has an empty players map: the disconnect of a
\* session's last player removes the session, and a request that names a
\* removed session is answered "Session not found".
C10_NoEmptySession ==
    /\ \A s \in DOMAIN gameSessions : gameSessions[s].players # <<>>
    /\ \A s \in 1..nSessions, id \in SocketIds :
          ~Live(s) =>
             /\ IsRejected(OnJoinSession(id, s, <<"A">>))
             /\ IsRejected(OnStartGame(id, s, <<"Q">>, <<"p", "a">>))
             /\ IsRejected(OnSubmitGuess(id, s, <<"p", "a">>))

\* a session was created and its last player has disconnected
C10_Witness ==
    /\ nSessions = 1
    /\ ~Live(1)
    /\ playerSessions = EmptyMap
    /\ sockets # 1..nSockets

\* C11: once the disconnect of its last player has removed a session from the
\* store, nothing is emitted for it: the removing disconnect emits no
\* player-left, a countdown started for it emits no timer-update, and an
\* announcement deferred by a round of it emits no new-game-master.
C11_SilentAfterDestroy ==
    [][/\ \A id \in SocketIds, s \in SessionIds :
            (/\ Disconnect(id)
             /\ id \in DOMAIN playerSessions
             /\ playerSessions[id] = s
             /\ Live(s)
             /\ ~Live(s)')
            => OnDisconnect(id).emitted = <<>>
       /\ \A h \in 1..MaxIntervals :
            (IntervalTick(h) /\ ~Live(intervals[h].sessionId))
            => OnInterval(h).emitted = <<>>
       /\ \A s \in SessionIds :
            (NewMasterTimeout(s) /\ ~Live(s))
            => OnTimeout(s).emitted = <<>>]_vars

\* C12: in every reachable state, a start-game request for a session of the
\* store with fewer than 2 players is answered with an error and leaves the
\* session as it is, and a start-game request by the master of a session with
\* at least 2 players, with a non-blank question and answer, is accepted: it
\* leaves the session in progress with 3 attempts for every player.
C12_StartNeedsTwoPlayers ==
    \A id \in sockets, s \in DOMAIN gameSessions, data \in StartData :
        LET r == OnStartGame(id, s, data.question, data.answer)
            gameSession == gameSessions[s]
        IN /\ Len(gameSession.players) < 2 =>
                /\ IsRejected(r)
                /\ r.gameSessions = gameSessions
           /\ (/\ Len(gameSession.players) >= 2
               /\ gameSession.master = id
               /\ ~IsBlank(data.question)
               /\ ~IsBlank(data.answer)) =>
                /\ ~IsRejected(r)
                /\ "game-started" \in Events(r)
                /\ r.gameSessions[s].status = "in-progress"
                /\ r.gameSessions[s].players = gameSession.players
                /\ DOMAIN r.gameSessions[s].attempts = PlayerIds(s)
                /\ \A p \in PlayerIds(s) :
                      r.gameSessions[s].attempts[p] = InitialAttempts

\* a round has just been started for three players, and nobody has guessed
C12_Witness ==
    \E s \in DOMAIN gameSessions :
        /\ InProgress(s)
        /\ Len(gameSessions[s].players) = 3
        /\ \A p \in PlayerIds(s) : gameSessions[s].attempts[p] = InitialAttempts
        /\ \E h \in DOMAIN intervals : intervals[h].timeLeft = RoundSeconds

\* C13: when the master of a session disconnects and another player remains,
\* the step leaves the first remaining player in key order as master and emits
\* a new-game-master that names it, and it changes neither the status, the
\* question, the answer, the timer nor the countdowns.
C13_MasterLeaves ==
    [][\A id \in SocketIds, s \in SessionIds :
          (/\ Disconnect(id)
           /\ Live(s)
           /\ gameSessions[s].master = id
           /\ PlayerIds(s) \ {id} # {})
          => LET before == gameSessions[s]
                 rest == PlayersDelete(before.players, id)
             IN /\ Live(s)'
                /\ gameSessions'[s].players = rest
                /\ gameSessions'[s].master = rest[1].id
                /\ Emit(ToRoom(s), "new-game-master", [master |-> Some(rest[1])])
                      \in {OnDisconnect(id).emitted[i] :
                              i \in 1..Len(OnDisconnect(id).emitted)}
                /\ gameSessions'[s].status = before.status
                /\ gameSessions'[s].question = before.question
                /\ gameSessions'[s].answer = before.answer
                /\ gameSessions'[s].timer = before.timer
                /\ UNCHANGED <<intervals, timeouts>>]_vars

\* C14: a join-session request is accepted only for a session of the store
\* that is waiting; no step from a state in which a session is in progress
\* adds a player to it; and an accepted join leaves the joiner as the last
\* player, after all the players the session had, in their order.
C14_JoinOnlyWhenWaiting ==
    /\ [](\A id \in sockets, s \in SessionIdInputs, username \in Usernames :
            ~IsRejected(OnJoinSession(id, s, username))
            => /\ Live(s)
               /\ gameSessions[s].status = "waiting")
    /\ [][/\ \A s \in SessionIds :
               (InProgress(s) /\ Live(s)')
               => PlayerIds(s)' \subseteq PlayerIds(s)
          /\ \A id \in SocketIds, s \in SessionIds, username \in Usernames :
               (/\ JoinSession(id, s, username)
                /\ ~IsRejected(OnJoinSession(id, s, username)))
               => /\ Keys(gameSessions'[s].players)
                       = Append(Keys(gameSessions[s].players), id)
                  /\ \A i \in 1..Len(gameSessions[s].players) :
                        gameSessions'[s].players[i] = gameSessions[s].players[i]]_vars

\* C15: in every reachable state, the status of every session of the store is
\* waiting or in progress, never finished, and it is in progress exactly when
\* the question, the answer and the timer are all set and attempts has an
\* entry for every player.
C15_InProgressIffRoundData ==
    \A s \in DOMAIN gameSessions :
        LET gameSession == gameSessions[s]
        IN /\ gameSession.status \in {"waiting", "in-progress"}
           /\ gameSession.status = "in-progress"
                 <=> /\ gameSession.question # None
                     /\ gameSession.answer # None
                     /\ gameSession.timer # None
                     /\ PlayerIds(s) \subseteq DOMAIN gameSession.attempts

\* a round has ended in a session that waits for the next one, and attempts
\* still has an entry for each of its players
C15_Witness ==
    \E s \in DOMAIN gameSessions :
        /\ ~InProgress(s)
        /\ timeouts[s] > 0
        /\ Len(gameSessions[s].players) >= 2
        /\ PlayerIds(s) \subseteq DOMAIN gameSessions[s].attempts
        /\ gameSessions[s].question = None

\* the handler result r of a request by id is an error sent to id alone, and
\* nothing of the server has changed
ErrorOnly(r, id) ==
    /\ Len(r.emitted) = 1
    /\ r.emitted[1].event = "error"
    /\ r.emitted[1].to = ToSocket(id)
    /\ [r EXCEPT !.emitted = <<>>] = Server

\* C16: in every reachable state, each request that the server answers with
\* an error (a blank username, session id, question, answer or guess, an
\* unknown session, a join while not waiting, a start by a non-master or with
\* fewer than 2 players, a guess while not in progress) gets exactly one
\* notification, the error, sent to the requesting connection only, and
\* leaves the store, every session, the index and the timers as they were.
C16_ErrorsChangeNothing ==
    \A id \in sockets :
        /\ \A username \in Usernames :
              LET r == OnCreateSession(id, username)
              IN /\ IsBlank(username) => IsRejected(r)
                 /\ IsRejected(r) => ErrorOnly(r, id)
        /\ \A s \in SessionIdInputs, username \in Usernames :
              LET r == OnJoinSession(id, s, username)
              IN /\ (\/ IsBlank(username)
                     \/ s = BlankSessionId
                     \/ ~Live(s)
                     \/ gameSessions[s].status # "waiting") => IsRejected(r)
                 /\ IsRejected(r) => ErrorOnly(r, id)
        /\ \A s \in SessionIdInputs, data \in StartData :
              LET r == OnStartGame(id, s, data.question, data.answer)
              IN /\ (\/ ~Live(s)
                     \/ gameSessions[s].master # id
                     \/ Len(gameSessions[s].players) < 2
                     \/ IsBlank(data.question)
                     \/ IsBlank(data.answer)) => IsRejected(r)
                 /\ IsRejected(r) => ErrorOnly(r, id)
        /\ \A s \in SessionIdInputs, guess \in Guesses :
              LET r == OnSubmitGuess(id, s, guess)
              IN /\ (\/ ~Live(s)
                     \/ gameSessions[s].status # "in-progress"
                     \/ IsBlank(guess)) => IsRejected(r)
                 /\ IsRejected(r) => ErrorOnly(r, id)

\* a round is in progress in a session with three players: a join, a start by
\* a player who is not the master and a blank guess are all answered with an
\* error, after guesses have been counted
C16_Witness ==
    \E s \in DOMAIN gameSessions, id \in sockets :
        /\ InProgress(s)
        /\ Len(gameSessions[s].players) = 3
        /\ gameSessions[s].master # id
        /\ NumGetOr0(gameSessions[s].attempts, id) < InitialAttempts
        /\ IsRejected(OnJoinSession(id, s, <<"A">>))
        /\ IsRejected(OnStartGame(id, s, <<"Q">>, <<"p", "a">>))
        /\ IsRejected(OnSubmitGuess(id, s, <<>>))

\* C17: over every step, the score of a connection that is a player of a
\* session before and after the step does not decrease, is never negative,
\* and changes only if the step runs endGame on that session; so a
\* create-session or join-session by a player does not change its score.
C17_ScoreMonotone ==
    [][\A s \in SessionIds, p \in SocketIds :
          (/\ Live(s)
           /\ Live(s)'
           /\ p \in PlayerIds(s)
           /\ p \in PlayerIds(s)')
          => LET before == PlayersGet(gameSessions[s].players, p)[1].score
                 after == PlayersGet(gameSessions'[s].players, p)[1].score
             IN /\ before >= 0
                /\ after >= before
                /\ after # before => RoundEnds(s)]_vars

\* C18: in every reachable state, the attempts map of every session of the
\* store that is waiting is empty: endGame clears it with the question, the
\* answer and the timer.
C18_AttemptsClearedWhenWaiting ==
    \A s \in DOMAIN gameSessions :
        gameSessions[s].status = "waiting" =>
            /\ gameSessions[s].attempts = EmptyMap
            /\ gameSessions[s].question = None
            /\ gameSessions[s].answer = None
            /\ gameSessions[s].timer = None

\* C19: whenever a step ends a round of a session with a winner, the winner
\* is a key of the session's players map, and a submit-guess by a connection
\* that is not a player of the session it names adds no entry to the
\* session's attempts or scores.
C19_OnlyPlayersPlay ==
    [][/\ \A s \in SessionIds :
            (RoundEnds(s) /\ gameSessions'[s].winner # None)
            => /\ HasPlayer(gameSessions[s].players, gameSessions'[s].winner[1])
               /\ HasPlayer(gameSessions'[s].players, gameSessions'[s].winner[1])
       /\ \A id \in SocketIds, s \in SessionIds, guess \in Guesses :
            (/\ SubmitGuess(id, s, guess)
             /\ Live(s)
             /\ id \notin PlayerIds(s))
            => /\ DOMAIN gameSessions'[s].attempts = DOMAIN gameSessions[s].attempts
               /\ DOMAIN gameSessions'[s].scores = DOMAIN gameSessions[s].scores]_vars

\* C20: in every reachable state, every entry of playerSessions maps a
\* connection to a session of the store that has the connection as a player.
C20_IndexConsistent ==
    \A p \in DOMAIN playerSessions :
        /\ Live(playerSessions[p])
        /\ p \in PlayerIds(playerSessions[p])

\* a connection that is a player of two sessions is indexed under the second,
\* and another player of the first has disconnected
C20_Witness ==
    \E p \in DOMAIN playerSessions, s \in DOMAIN gameSessions :
        /\ playerSessions[p] # s
        /\ p \in PlayerIds(s)
        /\ p \in PlayerIds(playerSessions[p])
        /\ sockets # 1..nSockets
        /\ DOMAIN playerSessions # sockets
====
